---- MODULE Spec2Model ----
(***************************************************************************)
(* server.ts and the chat page of the client. The presence / message-relay *)
(* core: the connection registry `clients`, the upgrade handshake, the     *)
(* per-connection message and close handlers, the presence broadcast, and  *)
(* the REST chat routes (history fetch, message deletion with its          *)
(* MESSAGE_DELETED push); the frames on the wire, the chat view and the    *)
(* browser session of the client; and the shop routes that run in a        *)
(* transaction: sales against the stock, and the debt ledger.              *)
(***************************************************************************)
EXTENDS Integers, Sequences, FiniteSets, TLC

\* ------------------------------------------------------------------ bounds
MaxConns == 2      \* WebSocket connections accepted in one run
MaxMsgs  == 1      \* rows ever inserted into the messages table

\* rows inserted, and frames written by clients, in a run that follows the
\* frames of a connection from the wire to the handler
MaxOrdered == MaxMsgs + 2

\* chats selected in the chat view in one run
MaxSelects == MaxMsgs + 1

\* calls of fetchWithAuth in one run
MaxCalls == MaxMsgs + 2

\* ------------------------------------------------------------- value sets
Null == 0          \* JS null / undefined / absent (row ids start at 1)

Users == {1, 2}    \* ids of the rows of the users table
Conns == 1..MaxConns
Groups == {1}
Contents == {"hi"}
Tabs == {1, 2}          \* browser tabs sharing one localStorage
Tags == {"a", "b"}      \* values of Math.random().toString(36).substring(7)
MsgIds == 1..(MaxMsgs + 1)

\* A bearer token as the verifier sees it: absent, not a JWT, a JWT signed
\* for user `id` whose 24h expiry has passed, or a JWT that verifies.
Tokens ==
  {[kind |-> "missing", id |-> Null], [kind |-> "malformed", id |-> Null]}
    \cup [kind : {"expired", "valid"}, id : Users]

\* Inbound frames after JSON.parse. The client sends receiverId and groupId
\* in every CHAT_MESSAGE, null for the one that does not apply.
Frames ==
  [type : {"CHAT_MESSAGE"},
   receiverId : Users \cup {Null},
   groupId : Groups \cup {Null},
   content : Contents]
    \cup {[type |-> "PING", receiverId |-> Null, groupId |-> Null,
           content |-> "hi"]}

\* A route parameter (req.params.x) is a string; v is the number it spells.
ParamStr(n) == [t |-> "string", v |-> n]
\* SQLite applies INTEGER affinity to a text parameter compared with an
\* INTEGER column.
SqlInt(p) == p.v

VARIABLES
  clients,      \* the Map userId -> WebSocket, as its set of entries <<k, v>>
  readyState,   \* ws.readyState of every connection
  userId,       \* the `userId` closed over by each connection's handlers
  nextConn,     \* number of connections accepted so far
  sent,         \* per connection: the frames the last handler sent to it
  messages,     \* rows of the messages table
  seq,          \* sqlite_sequence of messages (AUTOINCREMENT)
  last,         \* the handler that ran last and what it answered
  passes,       \* number of broadcastOnlineUsers passes run
  changes,      \* number of clients.set / clients.delete calls made
  inflight,     \* per connection: frames the peer wrote, not yet emitted
                \* as 'message', each with its ordinal on the connection
  written,      \* per connection: number of frames the peer wrote
  acks,         \* per connection: ids of the MESSAGE_SENT frames sent on it,
                \* in the order of the sends
  rowOrd,       \* for every row inserted: the connection and the ordinal of
                \* the frame it was inserted for
  me,           \* ChatPage: user.id of the authenticated user
  socket,       \* ChatPage: the connection of its WebSocket
  opened,       \* ChatPage: number of WebSockets it has created
  onlineUserIds, \* ChatPage: onlineUserIds
  selectedChat, \* ChatPage: selectedChat
  chatMessages, \* ChatPage: messages, the displayed list
  toView,       \* frames sent on the view's connection, not yet handled by
                \* ws.onmessage
  pending,      \* history fetches of the view that are under way
  fetches,      \* number of history fetches the view has issued
  localStorage, \* the token and sessionId items of localStorage
  sessionId,    \* per tab: sessionId of its AuthProvider
  currentSessionId, \* per tab: the module variable currentSessionId
  location,     \* per tab: the page it shows
  awaiting,     \* per tab: the token of its request the server has not
                \* answered yet
  requests,     \* number of requests fetchWithAuth has handed to fetch
  lastCall,     \* the last call of fetchWithAuth and how it ended
  products,     \* rows of the products table, the i-th being the row of id i
  sales,        \* rows of the sales table
  sale_items,   \* rows of the sale_items table
  customers,    \* rows of the customers table
  debts         \* rows of the debts table

\* the frames on the wire and the record of what became of them
ovars == <<inflight, written, acks, rowOrd>>

\* the chat view of one browser tab
cvars == <<me, socket, opened, onlineUserIds, selectedChat, chatMessages,
           toView, pending, fetches>>

\* the session of the browser: localStorage and the tabs that share it
tvars == <<localStorage, sessionId, currentSessionId, location, awaiting,
           requests, lastCall>>

\* the tables of the shop: stock, sales and the debt ledger
dvars == <<products, sales, sale_items, customers, debts>>

\* what lies outside the chat server: held still while only that is run
xvars == <<ovars, cvars, tvars, dvars>>

\* the state of the server
svars == <<clients, readyState, userId, nextConn, sent, messages, seq, last,
           passes, changes>>

vars == <<clients, readyState, userId, nextConn, sent, messages, seq, last,
          passes, changes, xvars>>

\* nothing sent yet by the running handler
NoneSent == [c \in Conns |-> <<>>]

\* selectedChat before any chat is selected
NoChat == [id |-> Null, isGroup |-> FALSE]

\* localStorage after clear(): getItem answers null
NoItems == [token |-> [kind |-> "missing", id |-> Null], sessionId |-> ""]

\* no call of fetchWithAuth yet
NoCall == [n |-> 0, tab |-> Null, error |-> "", sent |-> FALSE]

\* ----------------------------------------------------------- the registry
\* MapSet that keeps the entry already under k
MapSetKeepsPrior(m, k, v) == m \cup {<<k, v>>}

\* Map.prototype.set: the entry under k is replaced.
MapSet(m, k, v) == {e \in m : e[1] # k} \cup {<<k, v>>}

\* Map.prototype.delete
MapDelete(m, k) == {e \in m : e[1] # k}

\* Map.prototype.get: the value under k, or undefined
MapGet(m, k) ==
  IF \E e \in m : e[1] = k THEN (CHOOSE e \in m : e[1] = k)[2] ELSE Null

\* Array.from(clients.keys())
MapKeys(m) == {e[1] : e \in m}

\* the values clients.forEach visits
MapValues(m) == {e[2] : e \in m}

\* ------------------------------------------------------- presence broadcast
\* onlineUserIds of broadcastOnlineUsers
OnlineUserIds(m) == MapKeys(m)

\* the connections broadcastOnlineUsers sends to
BroadcastTargets(m, rs) == {c \in MapValues(m) : rs[c] = "OPEN"}

OnlineUsersFrame(m) == [type |-> "ONLINE_USERS", users |-> OnlineUserIds(m)]

\* BroadcastOnlineUsers whose pass is abandoned when a registered connection
\* is not open
BroadcastOnlineUsersAbortsOnClosed(m, rs, out) ==
  IF \E c \in MapValues(m) : rs[c] # "OPEN"
    THEN out
    ELSE [c \in Conns |->
            IF c \in BroadcastTargets(m, rs)
              THEN Append(out[c], OnlineUsersFrame(m))
              ELSE out[c]]

\* client.send(payload) for every target
BroadcastOnlineUsers(m, rs, out) ==
  [c \in Conns |->
     IF c \in BroadcastTargets(m, rs)
       THEN Append(out[c], OnlineUsersFrame(m))
       ELSE out[c]]

\* ------------------------------------------------------------ token verifier
\* JwtVerify that does not look at the expiry
JwtVerifyIgnoresExpiry(token) ==
  IF token.kind \in {"valid", "expired"} THEN token.id ELSE Null

\* jwt.verify(token, JWT_SECRET, cb): the decoded user id, or Null for err
JwtVerify(token) == IF token.kind = "valid" THEN token.id ELSE Null

NoToken == [kind |-> "none", id |-> Null]

\* the token the login of user u was answered with
ValidToken(u) == [kind |-> "valid", id |-> u]
NoFrame == [type |-> "NONE", receiverId |-> Null, groupId |-> Null,
            content |-> ""]

\* What the last handler was given and what it answered. A WebSocket handler
\* runs for a connection, with a frame; a request carries a token and, once
\* authenticateToken has let it through to the route, a route parameter,
\* and is answered by a status, an error text or rows.
Last(op, c, fr) ==
  [op |-> op, conn |-> c, frame |-> fr, token |-> NoToken, arg |-> Null,
   status |-> 0, error |-> "", rows |-> {}]

LastReq(op, c, token, arg, status, error, rows) ==
  [op |-> op, conn |-> c, frame |-> NoFrame, token |-> token, arg |-> arg,
   status |-> status, error |-> error, rows |-> rows]

Init ==
  /\ clients = {}
  /\ readyState = [c \in Conns |-> "NONE"]
  /\ userId = [c \in Conns |-> Null]
  /\ nextConn = 0
  /\ sent = NoneSent
  /\ messages = {}
  /\ seq = 0
  /\ last = Last("init", Null, NoFrame)
  /\ passes = 0
  /\ changes = 0
  /\ inflight = [c \in Conns |-> <<>>]
  /\ written = [c \in Conns |-> 0]
  /\ acks = [c \in Conns |-> <<>>]
  /\ rowOrd = {}
  /\ me = Null
  /\ socket = Null
  /\ opened = 0
  /\ onlineUserIds = {}
  /\ selectedChat = NoChat
  /\ chatMessages = <<>>
  /\ toView = <<>>
  /\ pending = {}
  /\ fetches = 0
  /\ localStorage = NoItems
  /\ sessionId = [t \in Tabs |-> ""]
  /\ currentSessionId = [t \in Tabs |-> ""]
  /\ location = [t \in Tabs |-> "closed"]
  /\ awaiting = [t \in Tabs |-> NoToken]
  /\ requests = 0
  /\ lastCall = NoCall
  /\ products = <<>>
  /\ sales = <<>>
  /\ sale_items = <<>>
  /\ customers = <<>>
  /\ debts = <<>>

\* wss.on('connection') up to the registration of the handlers
OnConnection(c, u) ==
  LET m == MapSet(clients, u, c)
      rs == [readyState EXCEPT ![c] = "OPEN"]
  IN /\ nextConn' = c
     /\ userId' = [userId EXCEPT ![c] = u]
     /\ readyState' = rs
     /\ clients' = m
     /\ changes' = changes + 1
     /\ sent' = BroadcastOnlineUsers(m, rs, NoneSent)
     /\ passes' = passes + 1

\* server.on('upgrade'): what the handshake answers, 101 when it upgrades
UpgradeStatus(token) ==
  IF token.kind = "missing" THEN 401
  ELSE IF JwtVerify(token) = Null THEN 403
  ELSE 101

\* server.on('upgrade') followed, on success, by wss.on('connection')
Upgrade(token) ==
  /\ IF UpgradeStatus(token) # 101
       THEN /\ last' = LastReq("upgrade", Null, token, Null,
                               UpgradeStatus(token), "", {})
            /\ sent' = NoneSent
            /\ UNCHANGED <<clients, readyState, userId, nextConn, passes,
                           changes>>
       ELSE /\ nextConn < MaxConns
            /\ OnConnection(nextConn + 1, JwtVerify(token))
            /\ last' = LastReq("upgrade", nextConn + 1, token, Null, 101, "",
                               {})
  /\ UNCHANGED <<messages, seq>>

\* Peer close frame or socket error: readyState leaves OPEN; the 'close'
\* event is emitted later.
TransportClosing(c) ==
  /\ readyState[c] = "OPEN"
  /\ readyState' = [readyState EXCEPT ![c] = "CLOSING"]
  /\ last' = Last("closing", c, NoFrame)
  /\ sent' = NoneSent
  /\ UNCHANGED <<clients, userId, nextConn, messages, seq, passes, changes>>

\* OnClose with the broadcast built before the entry is deleted
OnCloseStalePayload(c) ==
  /\ readyState[c] \in {"OPEN", "CLOSING"}
  /\ LET rs == [readyState EXCEPT ![c] = "CLOSED"]
         m == MapDelete(clients, userId[c])
     IN /\ readyState' = rs
        /\ clients' = m
        /\ changes' = changes + 1
        /\ sent' = BroadcastOnlineUsers(clients, rs, NoneSent)
        /\ passes' = passes + 1
  /\ last' = Last("close", c, NoFrame)
  /\ UNCHANGED <<userId, nextConn, messages, seq>>

\* OnClose without the call of broadcastOnlineUsers
OnCloseNoBroadcast(c) ==
  /\ readyState[c] \in {"OPEN", "CLOSING"}
  /\ readyState' = [readyState EXCEPT ![c] = "CLOSED"]
  /\ clients' = MapDelete(clients, userId[c])
  /\ changes' = changes + 1
  /\ sent' = NoneSent
  /\ last' = Last("close", c, NoFrame)
  /\ UNCHANGED <<userId, nextConn, messages, seq, passes>>

\* ws.on('close')
OnClose(c) ==
  /\ readyState[c] \in {"OPEN", "CLOSING"}
  /\ LET rs == [readyState EXCEPT ![c] = "CLOSED"]
         m == MapDelete(clients, userId[c])
     IN /\ readyState' = rs
        /\ clients' = m
        /\ changes' = changes + 1
        /\ sent' = BroadcastOnlineUsers(m, rs, NoneSent)
        /\ passes' = passes + 1
  /\ last' = Last("close", c, NoFrame)
  /\ UNCHANGED <<userId, nextConn, messages, seq>>

\* ------------------------------------------------------------ message relay
\* stmt.run(userId, receiverId, content) throws when receiver_id, declared
\* NOT NULL, is bound to null.
InsertThrows(fr) == fr.receiverId = Null

\* SavedMsg that takes the sender from the frame when the frame names one
SavedMsgTrustsFrame(id, u, fr) ==
  [id |-> id,
   sender_id |-> IF "sender_id" \in DOMAIN fr THEN fr.sender_id ELSE u,
   receiver_id |-> fr.receiverId, content |-> fr.content]

\* savedMsg: sender_id is the userId the connection handler closed over; of
\* the frame only receiverId and content are read.
SavedMsg(id, u, fr) ==
  [id |-> id, sender_id |-> u, receiver_id |-> fr.receiverId,
   content |-> fr.content]

NewMessageFrame(msg) == [type |-> "NEW_MESSAGE", message |-> msg]
MessageSentFrame(msg) == [type |-> "MESSAGE_SENT", message |-> msg]

\* SendToReceiver that looks up the sender's id
SendToReceiverBySender(m, rs, out, msg) ==
  LET receiverSocket == MapGet(m, msg.sender_id)
  IN IF receiverSocket # Null /\ rs[receiverSocket] = "OPEN"
       THEN [out EXCEPT ![receiverSocket] = Append(@, NewMessageFrame(msg))]
       ELSE out

\* "Send to receiver if online"
SendToReceiver(m, rs, out, msg) ==
  LET receiverSocket == MapGet(m, msg.receiver_id)
  IN IF receiverSocket # Null /\ rs[receiverSocket] = "OPEN"
       THEN [out EXCEPT ![receiverSocket] = Append(@, NewMessageFrame(msg))]
       ELSE out

\* "Send back to sender for confirmation": ws.send has no readyState test;
\* on a socket that is not open it delivers nothing (it throws into the
\* handler's catch or drops the frame, depending on the ws release).
SendToSender(out, rs, ws, msg) ==
  IF rs[ws] = "OPEN"
    THEN [out EXCEPT ![ws] = Append(@, MessageSentFrame(msg))]
    ELSE out

\* The body of ws.on('message') for frame fr on connection c, in a run that
\* inserts at most cap rows. A frame buffered when the transport fails is
\* still handed to the handler, with readyState already CLOSING.
HandleMessage(c, fr, cap) ==
  /\ readyState[c] \in {"OPEN", "CLOSING"}
  /\ last' = Last("message", c, fr)
  /\ IF fr.type # "CHAT_MESSAGE" \/ InsertThrows(fr)
       THEN /\ sent' = NoneSent
            /\ UNCHANGED <<messages, seq>>
       ELSE /\ seq < cap
            /\ LET msg == SavedMsg(seq + 1, userId[c], fr)
               IN /\ messages' = messages \cup {msg}
                  /\ seq' = seq + 1
                  /\ sent' = SendToSender(
                               SendToReceiver(clients, readyState, NoneSent,
                                              msg),
                               readyState, c, msg)
  /\ UNCHANGED <<clients, readyState, userId, nextConn, passes, changes>>

\* ws.on('message'), the frame being whatever the peer wrote next
OnMessage(c, fr) == HandleMessage(c, fr, MaxMsgs)

\* --------------------------------------------------------------- REST routes
\* AuthStatus that lets every token that is present through
AuthStatusNoVerify(token) ==
  IF token.kind = "missing" THEN 401 ELSE 0

\* authenticateToken: the status it answers with, 0 when it calls next()
AuthStatus(token) ==
  IF token.kind = "missing" THEN 401
  ELSE IF JwtVerify(token) = Null THEN 403
  ELSE 0

AuthError(token) ==
  IF token.kind = "missing" THEN "Unauthorized" ELSE "Forbidden"

\* History that does not look at the requester
HistoryOfPeer(rows, u, otherUserId) ==
  {r \in rows :
     \/ r.receiver_id = SqlInt(otherUserId)
     \/ r.sender_id = SqlInt(otherUserId)}

\* History without the second branch of the WHERE clause
HistorySentOnly(rows, u, otherUserId) ==
  {r \in rows : r.sender_id = u /\ r.receiver_id = SqlInt(otherUserId)}

\* SELECT * FROM messages WHERE (sender_id = ? AND receiver_id = ?)
\*                           OR (sender_id = ? AND receiver_id = ?)
History(rows, u, otherUserId) ==
  {r \in rows :
     \/ r.sender_id = u /\ r.receiver_id = SqlInt(otherUserId)
     \/ r.sender_id = SqlInt(otherUserId) /\ r.receiver_id = u}

\* GET /api/chat/:otherUserId
GetChat(token, other) ==
  /\ last' = IF AuthStatus(token) # 0
               THEN LastReq("chat", Null, token, Null, AuthStatus(token),
                            AuthError(token), {})
               ELSE LastReq("chat", Null, token, other, 200, "",
                            History(messages, JwtVerify(token),
                                    ParamStr(other)))
  /\ sent' = NoneSent
  /\ UNCHANGED <<clients, readyState, userId, nextConn, messages, seq, passes,
                 changes>>

NoRow == [id |-> Null, sender_id |-> Null, receiver_id |-> Null, content |-> ""]

\* SELECT * FROM messages WHERE id = ?
SelectMessage(rows, msgId) ==
  IF \E r \in rows : r.id = SqlInt(msgId)
    THEN CHOOSE r \in rows : r.id = SqlInt(msgId)
    ELSE NoRow

\* DeleteStatus without the sender check
DeleteStatusNoSenderCheck(rows, uid, msgId) ==
  IF SelectMessage(rows, msgId) = NoRow THEN 404 ELSE 200

\* DeleteStatus without the existence check
DeleteStatusNoExistenceCheck(rows, uid, msgId) ==
  IF SelectMessage(rows, msgId) # NoRow
       /\ SelectMessage(rows, msgId).sender_id # uid
    THEN 403
    ELSE 200

\* The status DELETE /api/messages/:id answers with for requester uid
DeleteStatus(rows, uid, msgId) ==
  IF SelectMessage(rows, msgId) = NoRow THEN 404
  ELSE IF SelectMessage(rows, msgId).sender_id # uid THEN 403
  ELSE 200

DeleteError(status) ==
  IF status = 404 THEN "Message not found"
  ELSE IF status = 403 THEN "Not authorized to delete this message"
  ELSE ""

MessageDeletedFrame(messageId) ==
  [type |-> "MESSAGE_DELETED", messageId |-> messageId]

\* broadcastMessageDeleted(messageId, userId)
BroadcastMessageDeleted(m, rs, out, messageId, uid) ==
  IF uid = Null THEN out
  ELSE LET client == MapGet(m, uid)
       IN IF client # Null /\ rs[client] = "OPEN"
            THEN [out EXCEPT ![client] =
                    Append(@, MessageDeletedFrame(messageId))]
            ELSE out

\* DeleteMessage on a table whose ids are not AUTOINCREMENT: the next id is
\* one more than the largest id left
DeleteMessageReusesIds(token, id) ==
  /\ LET msgId == ParamStr(id)
         uid == JwtVerify(token)
         msg == SelectMessage(messages, msgId)
         st == DeleteStatus(messages, uid, msgId)
         left == {r \in messages : r.id # SqlInt(msgId)}
     IN IF AuthStatus(token) # 0
          THEN /\ last' = LastReq("delete", Null, token, Null,
                                  AuthStatus(token), AuthError(token), {})
               /\ sent' = NoneSent
               /\ UNCHANGED <<messages, seq>>
        ELSE IF st # 200
          THEN /\ last' = LastReq("delete", Null, token, id, st,
                                  DeleteError(st), {})
               /\ sent' = NoneSent
               /\ UNCHANGED <<messages, seq>>
        ELSE /\ messages' = left
             /\ seq' = IF left = {} THEN 0
                       ELSE CHOOSE n \in {r.id : r \in left} :
                              \A r \in left : r.id <= n
             /\ sent' = BroadcastMessageDeleted(
                          clients, readyState,
                          BroadcastMessageDeleted(clients, readyState,
                                                  NoneSent, msgId,
                                                  msg.receiver_id),
                          msgId, msg.sender_id)
             /\ last' = LastReq("delete", Null, token, id, 200, "", {})
  /\ UNCHANGED <<clients, readyState, userId, nextConn, passes, changes>>

\* DeleteMessage that deletes the row for any authenticated requester
DeleteMessageAnyRequester(token, id) ==
  /\ LET msgId == ParamStr(id)
         msg == SelectMessage(messages, msgId)
     IN IF AuthStatus(token) # 0
          THEN /\ last' = LastReq("delete", Null, token, Null,
                                  AuthStatus(token), AuthError(token), {})
               /\ sent' = NoneSent
               /\ UNCHANGED messages
        ELSE IF msg = NoRow
          THEN /\ last' = LastReq("delete", Null, token, id, 404,
                                  DeleteError(404), {})
               /\ sent' = NoneSent
               /\ UNCHANGED messages
        ELSE /\ messages' = {r \in messages : r.id # SqlInt(msgId)}
             /\ sent' = BroadcastMessageDeleted(
                          clients, readyState,
                          BroadcastMessageDeleted(clients, readyState,
                                                  NoneSent, msgId,
                                                  msg.receiver_id),
                          msgId, msg.sender_id)
             /\ last' = LastReq("delete", Null, token, id, 200, "", {})
  /\ UNCHANGED <<clients, readyState, userId, nextConn, seq, passes, changes>>

\* DELETE /api/messages/:id
DeleteMessage(token, id) ==
  /\ LET msgId == ParamStr(id)
         uid == JwtVerify(token)
         msg == SelectMessage(messages, msgId)
         st == DeleteStatus(messages, uid, msgId)
     IN IF AuthStatus(token) # 0
          THEN /\ last' = LastReq("delete", Null, token, Null,
                                  AuthStatus(token), AuthError(token), {})
               /\ sent' = NoneSent
               /\ UNCHANGED messages
        ELSE IF st # 200
          THEN /\ last' = LastReq("delete", Null, token, id, st,
                                  DeleteError(st), {})
               /\ sent' = NoneSent
               /\ UNCHANGED messages
        ELSE /\ messages' = {r \in messages : r.id # SqlInt(msgId)}
             /\ sent' = BroadcastMessageDeleted(
                          clients, readyState,
                          BroadcastMessageDeleted(clients, readyState,
                                                  NoneSent, msgId,
                                                  msg.receiver_id),
                          msgId, msg.sender_id)
             /\ last' = LastReq("delete", Null, token, id, 200, "", {})
  /\ UNCHANGED <<clients, readyState, userId, nextConn, seq, passes, changes>>

Next ==
  \/ \E t \in Tokens : Upgrade(t) /\ UNCHANGED xvars
  \/ \E c \in Conns : TransportClosing(c) /\ UNCHANGED xvars
  \/ \E c \in Conns : OnClose(c) /\ UNCHANGED xvars
  \/ \E c \in Conns, fr \in Frames : OnMessage(c, fr) /\ UNCHANGED xvars
  \/ \E t \in Tokens, o \in Users : GetChat(t, o) /\ UNCHANGED xvars
  \/ \E t \in Tokens, id \in MsgIds : DeleteMessage(t, id) /\ UNCHANGED xvars

Spec == Init /\ [][Next]_vars

\* ------------------------------------------------- frames in receipt order
\* The frames a peer writes in the ordered runs: a direct send, and a frame
\* the handler drops.
OrderedFrames ==
  {fr \in Frames :
     /\ fr.type = "CHAT_MESSAGE"
     /\ fr.groupId = Null
     /\ fr.receiverId \in {Null, 1}}

\* the frames written on all connections together
TotalWritten == LET RECURSIVE Sum(_)
                    Sum(n) == IF n = 0 THEN 0 ELSE written[n] + Sum(n - 1)
                IN Sum(MaxConns)

\* the peer of connection c writes frame fr: socket.send
WsSend(c, fr) ==
  /\ readyState[c] = "OPEN"
  /\ TotalWritten < MaxOrdered
  /\ written' = [written EXCEPT ![c] = @ + 1]
  /\ inflight' = [inflight EXCEPT
                    ![c] = Append(@, [ord |-> written[c] + 1, frame |-> fr])]
  /\ UNCHANGED <<clients, readyState, userId, nextConn, sent, messages, seq,
                 last, passes, changes, acks, rowOrd>>

\* EmitIndex that takes the frame written last
EmitIndexNewest(q) == Len(q)

\* The receiver emits 'message' for the buffered frames one by one, oldest
\* first: the place in the buffer of the frame emitted next.
EmitIndex(q) == 1

\* the buffer without its i-th frame
RemoveAt(q, i) == SubSeq(q, 1, i - 1) \o SubSeq(q, i + 1, Len(q))

\* the ids of the MESSAGE_SENT frames among fs, in order
SentIds(fs) ==
  LET RECURSIVE Ids(_)
      Ids(n) == IF n = 0 THEN <<>>
                ELSE IF fs[n].type = "MESSAGE_SENT"
                  THEN Append(Ids(n - 1), fs[n].message.id)
                  ELSE Ids(n - 1)
  IN Ids(Len(fs))

\* 'message' is emitted on connection c and its handler runs to its end (it
\* awaits nothing) before anything else is handled.
Receive(c) ==
  /\ inflight[c] # <<>>
  /\ LET i == EmitIndex(inflight[c])
         e == inflight[c][i]
     IN /\ HandleMessage(c, e.frame, MaxOrdered)
        /\ inflight' = [inflight EXCEPT ![c] = RemoveAt(@, i)]
        /\ acks' = [d \in Conns |-> acks[d] \o SentIds(sent'[d])]
        /\ rowOrd' = IF seq' = seq THEN rowOrd
                     ELSE rowOrd \cup
                            {[id |-> seq', conn |-> c, ord |-> e.ord,
                              open |-> readyState[c] = "OPEN"]}
  /\ UNCHANGED written

OrderNext ==
  \/ \E u \in Users : Upgrade([kind |-> "valid", id |-> u]) /\ UNCHANGED xvars
  \/ \E c \in Conns, fr \in OrderedFrames :
       WsSend(c, fr) /\ UNCHANGED <<cvars, tvars, dvars>>
  \/ \E c \in Conns : Receive(c) /\ UNCHANGED <<cvars, tvars, dvars>>
  \/ \E c \in Conns : TransportClosing(c) /\ UNCHANGED xvars

OrderSpec == Init /\ [][OrderNext]_vars

\* ------------------------------------------------- the store, row by row
\* Frames of a client that also names a sender: the handler destructures
\* receiverId and content only, whatever else the frame carries.
StoreFrames ==
  [type : {"CHAT_MESSAGE"}, receiverId : Users, groupId : {Null},
   content : Contents, sender_id : Users]

\* a client writes a frame of its own making
StoreSend(c, fr) ==
  /\ TotalWritten < MaxSelects
  /\ WsSend(c, fr)
  /\ UNCHANGED <<cvars, tvars, dvars>>

\* Connections of verified principals send, the rows are inserted in the
\* order of receipt, fetched and deleted.
StoreNext ==
  \/ \E u \in Users : Upgrade(ValidToken(u)) /\ UNCHANGED xvars
  \/ \E c \in Conns, fr \in StoreFrames : StoreSend(c, fr)
  \/ \E c \in Conns : Receive(c) /\ UNCHANGED <<cvars, tvars, dvars>>
  \/ \E u, o \in Users : GetChat(ValidToken(u), o) /\ UNCHANGED xvars
  \/ \E u \in Users, id \in 1..MaxSelects :
       DeleteMessage(ValidToken(u), id) /\ UNCHANGED xvars

StoreSpec == Init /\ [][StoreNext]_vars

\* ------------------------------------------------------------ the chat view
\* The entries of the chat list: the users other than the local one, and the
\* groups, marked isGroup.
ChatEntries(uid) ==
  {[id |-> u, isGroup |-> FALSE] : u \in Users \ {uid}}
    \cup {[id |-> g, isGroup |-> TRUE] : g \in Groups}

\* msg.group_id: undefined on the objects the server builds
GroupIdOf(msg) == IF "group_id" \in DOMAIN msg THEN msg.group_id ELSE Null

\* a message object as an entry of the displayed list
ViewMsg(msg) ==
  [id |-> msg.id, sender_id |-> msg.sender_id,
   receiver_id |-> msg.receiver_id, group_id |-> GroupIdOf(msg),
   content |-> msg.content]

\* isCurrentChat of ws.onmessage
IsCurrentChat(msg, sc, uid) ==
  /\ sc # NoChat
  /\ \/ msg.sender_id = uid /\ msg.receiver_id = sc.id
     \/ msg.sender_id = sc.id /\ msg.receiver_id = uid
     \/ (GroupIdOf(msg) # Null /\ GroupIdOf(msg) = sc.id)

\* JS `n !== p` for a number n and a wire value p
StrictNe(n, p) == ~(p.t = "number" /\ p.v = n)

\* OnWsMessage that also appends the message of a MESSAGE_SENT
OnWsMessageAppendsSent(prev, sc, uid, data) ==
  IF data.type \in {"NEW_MESSAGE", "MESSAGE_SENT"}
    THEN IF IsCurrentChat(data.message, sc, uid)
           THEN Append(prev, ViewMsg(data.message))
           ELSE prev
  ELSE IF data.type = "MESSAGE_DELETED"
    THEN SelectSeq(prev, LAMBDA m : StrictNe(m.id, data.messageId))
  ELSE prev

\* ws.onmessage: the displayed list after the frame data
OnWsMessage(prev, sc, uid, data) ==
  IF data.type = "NEW_MESSAGE"
    THEN IF IsCurrentChat(data.message, sc, uid)
           THEN Append(prev, ViewMsg(data.message))
           ELSE prev
  ELSE IF data.type = "MESSAGE_DELETED"
    THEN SelectSeq(prev, LAMBDA m : StrictNe(m.id, data.messageId))
  ELSE prev

\* Date.now() of the n-th send of the view: no id the table assigns
TempId(n) == MaxOrdered + n

\* tempMessage of sendMessage
TempMessage(n, uid, sc, input) ==
  [id |-> TempId(n), sender_id |-> uid,
   receiver_id |-> IF sc.isGroup THEN Null ELSE sc.id,
   group_id |-> IF sc.isGroup THEN sc.id ELSE Null,
   content |-> input]

\* the frame sendMessage writes
ChatFrame(sc, input) ==
  [type |-> "CHAT_MESSAGE",
   receiverId |-> IF sc.isGroup THEN Null ELSE sc.id,
   groupId |-> IF sc.isGroup THEN sc.id ELSE Null,
   content |-> input]

\* rows ordered by created_at, that is by id
RECURSIVE SortById(_)
SortById(rows) ==
  IF rows = {} THEN <<>>
  ELSE LET r == CHOOSE x \in rows : \A y \in rows : x.id <= y.id
       IN <<ViewMsg(r)>> \o SortById(rows \ {r})

\* the frames the running handler sent on the view's connection reach the
\* view's queue
Delivered(ws) ==
  toView' = IF ws = Null THEN toView ELSE toView \o sent'[ws]

\* ChatPage mounts for user u: the WebSocket effect opens the connection
ViewMount(u) ==
  /\ me = Null
  /\ Upgrade(ValidToken(u))
  /\ me' = u
  /\ socket' = nextConn'
  /\ opened' = opened + 1
  /\ Delivered(nextConn')
  /\ UNCHANGED <<ovars, onlineUserIds, selectedChat, chatMessages, pending,
                 fetches>>

\* another client connects as user u
PeerConnect(u) ==
  /\ me # Null
  /\ Upgrade(ValidToken(u))
  /\ Delivered(socket)
  /\ UNCHANGED <<ovars, me, socket, opened, onlineUserIds, selectedChat,
                 chatMessages, pending, fetches>>

\* another client writes a direct message
PeerSend(c, fr) ==
  /\ c # socket
  /\ TotalWritten < MaxMsgs
  /\ WsSend(c, fr)
  /\ UNCHANGED cvars

\* the server handles the next frame of connection c
ViewReceive(c) ==
  /\ Receive(c)
  /\ Delivered(socket)
  /\ UNCHANGED <<me, socket, opened, onlineUserIds, selectedChat,
                 chatMessages, pending, fetches>>

\* ws.onmessage for the next frame on the view's connection
ViewOnMessage ==
  /\ toView # <<>>
  /\ LET data == Head(toView)
     IN /\ onlineUserIds' = IF data.type = "ONLINE_USERS" THEN data.users
                            ELSE onlineUserIds
        /\ chatMessages' = OnWsMessage(chatMessages, selectedChat, me, data)
  /\ toView' = Tail(toView)
  /\ UNCHANGED <<clients, readyState, userId, nextConn, sent, messages, seq,
                 last, passes, changes, ovars, me, socket, opened,
                 selectedChat, pending, fetches>>

\* SelectChat without the load-messages effect
SelectChatNoFetch(sc) ==
  /\ me # Null
  /\ sc \in ChatEntries(me)
  /\ sc # selectedChat
  /\ fetches < MaxSelects
  /\ selectedChat' = sc
  /\ fetches' = fetches + 1
  /\ UNCHANGED <<clients, readyState, userId, nextConn, sent, messages, seq,
                 last, passes, changes, ovars, me, socket, opened,
                 onlineUserIds, chatMessages, toView, pending>>

\* setSelectedChat(u) for an entry other than the selected one, and the
\* load-messages effect it triggers: the fetch is issued
SelectChat(sc) ==
  /\ me # Null
  /\ sc \in ChatEntries(me)
  /\ sc # selectedChat
  /\ fetches < MaxSelects
  /\ selectedChat' = sc
  /\ fetches' = fetches + 1
  /\ pending' = pending \cup
                  {[n |-> fetches + 1, chat |-> sc, served |-> FALSE,
                    rows |-> {}]}
  /\ UNCHANGED <<clients, readyState, userId, nextConn, sent, messages, seq,
                 last, passes, changes, ovars, me, socket, opened,
                 onlineUserIds, chatMessages, toView>>

\* The server answers a fetch. /api/chat/:otherUserId answers the rows;
\* there is no route for /api/groups/:id/messages, the answer is not JSON
\* and res.json() rejects: nothing is set.
ServeFetch(f) ==
  /\ f \in pending
  /\ ~f.served
  /\ IF f.chat.isGroup
       THEN /\ pending' = pending \ {f}
            /\ UNCHANGED <<clients, readyState, userId, nextConn, sent,
                           messages, seq, last, passes, changes>>
       ELSE /\ GetChat(ValidToken(me), f.chat.id)
            /\ pending' = (pending \ {f}) \cup
                            {[f EXCEPT !.served = TRUE, !.rows = last'.rows]}
  /\ UNCHANGED <<ovars, me, socket, opened, onlineUserIds, selectedChat,
                 chatMessages, toView, fetches>>

\* .then(data => setMessages(data))
FetchDone(f) ==
  /\ f \in pending
  /\ f.served
  /\ chatMessages' = SortById(f.rows)
  /\ pending' = pending \ {f}
  /\ UNCHANGED <<clients, readyState, userId, nextConn, sent, messages, seq,
                 last, passes, changes, ovars, me, socket, opened,
                 onlineUserIds, selectedChat, toView, fetches>>

\* sendMessage with the text input
SendMessage(input) ==
  /\ TotalWritten < MaxMsgs
  /\ selectedChat # NoChat
  /\ socket # Null
  /\ chatMessages' = Append(chatMessages,
                            TempMessage(written[socket] + 1, me, selectedChat,
                                        input))
  /\ WsSend(socket, ChatFrame(selectedChat, input))
  /\ UNCHANGED <<me, socket, opened, onlineUserIds, selectedChat, toView,
                 pending, fetches>>

\* the direct messages another client writes
PeerFrames ==
  {fr \in Frames :
     fr.type = "CHAT_MESSAGE" /\ fr.groupId = Null /\ fr.receiverId # Null}

ViewNext ==
  \/ \E u \in Users : ViewMount(u) /\ UNCHANGED <<tvars, dvars>>
  \/ \E u \in Users : PeerConnect(u) /\ UNCHANGED <<tvars, dvars>>
  \/ \E c \in Conns, fr \in PeerFrames : PeerSend(c, fr) /\ UNCHANGED <<tvars, dvars>>
  \/ \E c \in Conns : ViewReceive(c) /\ UNCHANGED <<tvars, dvars>>
  \/ ViewOnMessage /\ UNCHANGED <<tvars, dvars>>
  \/ \E sc \in ChatEntries(me) : SelectChat(sc) /\ UNCHANGED <<tvars, dvars>>
  \/ \E f \in pending : ServeFetch(f) /\ UNCHANGED <<tvars, dvars>>
  \/ \E f \in pending : FetchDone(f) /\ UNCHANGED <<tvars, dvars>>
  \/ \E input \in Contents : SendMessage(input) /\ UNCHANGED <<tvars, dvars>>

ViewSpec == Init /\ [][ViewNext]_vars

\* --------------------------------------------------- the browser's session
\* A tab loads the page: the module variable starts as null and the
\* AuthProvider draws its sessionId. A tab sent to /login loads it.
TabLoad(t, tag) ==
  /\ sessionId' = [sessionId EXCEPT ![t] = tag]
  /\ currentSessionId' = [currentSessionId EXCEPT ![t] = ""]
  /\ location' = [location EXCEPT
                    ![t] = IF localStorage.token.kind = "missing"
                             THEN "login" ELSE "app"]
  /\ awaiting' = [awaiting EXCEPT ![t] = NoToken]
  /\ UNCHANGED <<localStorage, requests, lastCall>>

\* AuthProvider.login(userData, userToken) in tab t, for user u
Login(t, u) ==
  /\ location[t] = "login"
  /\ localStorage' = [token |-> ValidToken(u), sessionId |-> sessionId[t]]
  /\ location' = [location EXCEPT ![t] = "app"]
  /\ UNCHANGED <<sessionId, currentSessionId, awaiting, requests, lastCall>>

\* the 24h of the stored token pass
TokenExpires ==
  /\ localStorage.token.kind = "valid"
  /\ localStorage' = [localStorage EXCEPT !.token.kind = "expired"]
  /\ UNCHANGED <<sessionId, currentSessionId, location, awaiting, requests,
                 lastCall>>

\* FetchWithAuth without the session check
FetchWithAuthNoCheck(t) ==
  /\ location[t] = "app"
  /\ awaiting[t] = NoToken
  /\ lastCall.n < MaxCalls
  /\ currentSessionId' =
       [currentSessionId EXCEPT ![t] = localStorage.sessionId]
  /\ awaiting' = [awaiting EXCEPT ![t] = localStorage.token]
  /\ requests' = requests + 1
  /\ lastCall' = [n |-> lastCall.n + 1, tab |-> t, error |-> "",
                  sent |-> TRUE]
  /\ UNCHANGED <<localStorage, sessionId, location>>

\* fetchWithAuth in tab t, up to its await of fetch
FetchWithAuth(t) ==
  /\ location[t] = "app"
  /\ awaiting[t] = NoToken
  /\ lastCall.n < MaxCalls
  /\ IF /\ localStorage.sessionId # ""
        /\ currentSessionId[t] # ""
        /\ localStorage.sessionId # currentSessionId[t]
       THEN /\ localStorage' = NoItems
            /\ location' = [location EXCEPT ![t] = "login"]
            /\ lastCall' = [n |-> lastCall.n + 1, tab |-> t,
                            error |-> "Session invalidated", sent |-> FALSE]
            /\ UNCHANGED <<sessionId, currentSessionId, awaiting, requests>>
       ELSE /\ currentSessionId' =
                 [currentSessionId EXCEPT ![t] = localStorage.sessionId]
            /\ awaiting' = [awaiting EXCEPT ![t] = localStorage.token]
            /\ requests' = requests + 1
            /\ lastCall' = [n |-> lastCall.n + 1, tab |-> t, error |-> "",
                            sent |-> TRUE]
            /\ UNCHANGED <<localStorage, sessionId, location>>

\* fetchWithAuth in tab t, from the answer of the server on
FetchAnswered(t) ==
  /\ awaiting[t] # NoToken
  /\ awaiting' = [awaiting EXCEPT ![t] = NoToken]
  /\ IF AuthStatus(awaiting[t]) \in {401, 403}
       THEN /\ localStorage' = NoItems
            /\ currentSessionId' = [currentSessionId EXCEPT ![t] = ""]
            /\ location' = [location EXCEPT ![t] = "login"]
            /\ lastCall' = [lastCall EXCEPT !.error = "Unauthorized"]
       ELSE UNCHANGED <<localStorage, currentSessionId, location, lastCall>>
  /\ UNCHANGED <<sessionId, requests>>

\* AuthProvider.logout in tab t
Logout(t) ==
  /\ location[t] = "app"
  /\ localStorage' = NoItems
  /\ currentSessionId' = [currentSessionId EXCEPT ![t] = ""]
  /\ location' = [location EXCEPT ![t] = "login"]
  /\ UNCHANGED <<sessionId, awaiting, requests, lastCall>>

SessionNext ==
  \/ \E t \in Tabs, tag \in Tags :
       TabLoad(t, tag) /\ UNCHANGED <<svars, ovars, cvars, dvars>>
  \/ \E t \in Tabs, u \in Users :
       Login(t, u) /\ UNCHANGED <<svars, ovars, cvars, dvars>>
  \/ TokenExpires /\ UNCHANGED <<svars, ovars, cvars, dvars>>
  \/ \E t \in Tabs : FetchWithAuth(t) /\ UNCHANGED <<svars, ovars, cvars, dvars>>
  \/ \E t \in Tabs : FetchAnswered(t) /\ UNCHANGED <<svars, ovars, cvars, dvars>>
  \/ \E t \in Tabs : Logout(t) /\ UNCHANGED <<svars, ovars, cvars, dvars>>

SessionSpec == Init /\ [][SessionNext]_vars

\* ------------------------------------------------------- the shop: sales
\* the bearer tokens of the requests to the shop routes
ShopTokens == {ValidToken(1), [kind |-> "missing", id |-> Null]}

\* the ids the products table assigns in one run
ProductIds == {1, 2}

\* quantity of a product when it is added
StockValues == {0, 1, 2}

\* items of a sale request: the id of a product in the table, or of none,
\* and a quantity
SaleItems == [id : ProductIds \cup {3}, quantity : {1, 2}]

\* the items arrays of the sale requests
ItemLists ==
  {<<>>} \cup {<<a>> : a \in SaleItems}
         \cup {<<a, b>> : a \in SaleItems, b \in SaleItems}

\* sale requests in one run
MaxSales == MaxMsgs + 1

\* a request answered by authenticateToken; given to no route
Refused(op, token) ==
  last' = LastReq(op, Null, token, Null, AuthStatus(token), AuthError(token),
                  {})

\* POST /api/products
PostProduct(token, quantity) ==
  /\ Len(products) + 1 \in ProductIds
  /\ IF AuthStatus(token) # 0
       THEN /\ Refused("product", token)
            /\ UNCHANGED products
       ELSE /\ products' = Append(products,
                                  [quantity |-> quantity, selling_price |-> 3,
                                   purchase_price |-> 2])
            /\ last' = LastReq("product", Null, token, quantity, 201, "", {})
  /\ UNCHANGED <<sales, sale_items, customers, debts>>

\* the transaction of a sale before its first item
SaleStart(prods) ==
  [ok |-> TRUE, products |-> prods, items |-> <<>>, totalAmount |-> 0,
   totalProfit |-> 0]

\* SELECT * FROM products WHERE id = ? finds a row
KnownProduct(prods, id) == id \in 1..Len(prods)

\* The loop over the items of a sale: each item is tested against the stock
\* as the earlier items of the request left it; the first item that fails
\* throws and ends the loop.
RECURSIVE SellItems(_, _)
SellItems(items, st) ==
  IF items = <<>> \/ ~st.ok THEN st
  ELSE LET item == Head(items)
       IN IF \/ ~KnownProduct(st.products, item.id)
             \/ st.products[item.id].quantity < item.quantity
            THEN [st EXCEPT !.ok = FALSE]
            ELSE LET product == st.products[item.id]
                     itemTotal == product.selling_price * item.quantity
                     itemProfit ==
                       (product.selling_price - product.purchase_price)
                         * item.quantity
                 IN SellItems(
                      Tail(items),
                      [ok |-> TRUE,
                       products |->
                         [st.products EXCEPT
                            ![item.id].quantity = @ - item.quantity],
                       items |->
                         Append(st.items,
                                [product_id |-> item.id,
                                 quantity |-> item.quantity,
                                 price |-> product.selling_price,
                                 profit |-> itemProfit]),
                       totalAmount |-> st.totalAmount + itemTotal,
                       totalProfit |-> st.totalProfit + itemProfit])

\* the sale_items rows of sale saleId, numbered on from n
ItemRows(items, saleId, n) ==
  [i \in 1..Len(items) |->
     [id |-> n + i, sale_id |-> saleId, product_id |-> items[i].product_id,
      quantity |-> items[i].quantity, price |-> items[i].price,
      profit |-> items[i].profit]]

\* PostSale whose statements are not run in a transaction: what was written
\* before the throw stays
PostSaleNoRollback(token, items) ==
  /\ Len(sales) < MaxSales
  /\ IF AuthStatus(token) # 0
       THEN /\ Refused("sale", token)
            /\ UNCHANGED <<products, sales, sale_items>>
       ELSE LET saleId == Len(sales) + 1
                st == SellItems(items, SaleStart(products))
            IN /\ products' = st.products
               /\ sale_items' = sale_items \o
                                  ItemRows(st.items, saleId, Len(sale_items))
               /\ IF st.ok
                    THEN /\ sales' = Append(sales,
                                       [id |-> saleId,
                                        total_amount |-> st.totalAmount,
                                        total_profit |-> st.totalProfit])
                         /\ last' = LastReq("sale", Null, token, items, 201,
                                            "", {})
                    ELSE /\ sales' = Append(sales,
                                       [id |-> saleId, total_amount |-> 0,
                                        total_profit |-> 0])
                         /\ last' = LastReq("sale", Null, token, items, 400,
                                            "Insufficient stock", {})
  /\ UNCHANGED <<customers, debts>>

\* POST /api/sales: db.transaction commits when the function returns and
\* rolls back when it throws.
PostSale(token, items) ==
  /\ Len(sales) < MaxSales
  /\ IF AuthStatus(token) # 0
       THEN /\ Refused("sale", token)
            /\ UNCHANGED <<products, sales, sale_items>>
       ELSE LET saleId == Len(sales) + 1
                st == SellItems(items, SaleStart(products))
            IN IF st.ok
                 THEN /\ products' = st.products
                      /\ sale_items' = sale_items \o
                                         ItemRows(st.items, saleId,
                                                  Len(sale_items))
                      /\ sales' = Append(sales,
                                         [id |-> saleId,
                                          total_amount |-> st.totalAmount,
                                          total_profit |-> st.totalProfit])
                      /\ last' = LastReq("sale", Null, token, items, 201, "",
                                         {})
                 ELSE /\ last' = LastReq("sale", Null, token, items, 400,
                                         "Insufficient stock", {})
                      /\ UNCHANGED <<products, sales, sale_items>>
  /\ UNCHANGED <<customers, debts>>

\* the shop routes leave the chat server's tables and connections alone
ShopOnly ==
  UNCHANGED <<clients, readyState, userId, nextConn, sent, messages, seq,
              passes, changes, ovars, cvars, tvars>>

SalesNext ==
  \/ \E t \in ShopTokens, q \in StockValues : PostProduct(t, q) /\ ShopOnly
  \/ \E t \in ShopTokens, items \in ItemLists : PostSale(t, items) /\ ShopOnly

SalesSpec == Init /\ [][SalesNext]_vars

\* ------------------------------------------------- the shop: debt ledger
\* the ids the customers table assigns in one run
CustomerIds == {1, 2}

\* JSON null as the type of a request
TypeNull == "null"

\* the bodies of the debt requests: customer_id of a customer in the table
\* or of none, an amount, and a type that is one of the two of the schema,
\* another string, or null
DebtRequests ==
  [customer_id : CustomerIds \cup {3}, amount : {1, 2},
   type : {"DEBT", "PAYMENT", "REFUND", TypeNull}]

\* debt requests in one run
MaxDebts == MaxMsgs + 1

\* POST /api/customers
PostCustomer(token) ==
  /\ Len(customers) + 1 \in CustomerIds
  /\ IF AuthStatus(token) # 0
       THEN /\ Refused("customer", token)
            /\ UNCHANGED customers
       ELSE /\ customers' = Append(customers, [balance |-> 0])
            /\ last' = LastReq("customer", Null, token, Null, 201, "", {})
  /\ UNCHANGED <<products, sales, sale_items, debts>>

\* CHECK(type IN ('DEBT', 'PAYMENT')): a CHECK fails only when its
\* expression is false; for a NULL type it is NULL and the row passes.
TypeCheckFails(type) == type # TypeNull /\ type \notin {"DEBT", "PAYMENT"}

\* FOREIGN KEY (customer_id) REFERENCES customers(id), where the build
\* enforces foreign keys (enforced = TRUE)
ForeignKeyFails(rows, customer_id, enforced) ==
  enforced /\ customer_id \notin 1..Len(rows)

\* balanceChange
BalanceChange(type, amount) == IF type = "DEBT" THEN amount ELSE 0 - amount

\* UPDATE customers SET balance = balance + ? WHERE id = ?
UpdateBalance(rows, customer_id, change) ==
  [i \in 1..Len(rows) |->
     IF i = customer_id THEN [rows[i] EXCEPT !.balance = @ + change]
     ELSE rows[i]]

\* POST /api/debts: the transaction rolls back when the insert throws, and
\* the exception leaves the route, which answers 500.
PostDebt(token, body, enforced) ==
  /\ Len(debts) < MaxDebts
  /\ IF AuthStatus(token) # 0
       THEN /\ Refused("debt", token)
            /\ UNCHANGED <<customers, debts>>
     ELSE IF \/ TypeCheckFails(body.type)
             \/ ForeignKeyFails(customers, body.customer_id, enforced)
       THEN /\ last' = LastReq("debt", Null, token, body, 500,
                               "constraint failed", {})
            /\ UNCHANGED <<customers, debts>>
     ELSE /\ debts' = Append(debts,
                             [id |-> Len(debts) + 1,
                              customer_id |-> body.customer_id,
                              amount |-> body.amount, type |-> body.type])
          /\ customers' = UpdateBalance(customers, body.customer_id,
                                        BalanceChange(body.type, body.amount))
          /\ last' = LastReq("debt", Null, token, body, 201, "", {})
  /\ UNCHANGED <<products, sales, sale_items>>

DebtNext ==
  \/ \E t \in ShopTokens : PostCustomer(t) /\ ShopOnly
  \/ \E t \in ShopTokens, body \in DebtRequests, enforced \in BOOLEAN :
       PostDebt(t, body, enforced) /\ ShopOnly

DebtSpec == Init /\ [][DebtNext]_vars

\* ======================================================================
\* Properties
\* ======================================================================
\* the principal ids that have an entry in the registry
RegisteredIds == {u \in Users : \E c \in Conns : <<u, c>> \in clients}

\* the frames of one type among those sent to a connection
FramesOfType(fs, type) == {i \in 1..Len(fs) : fs[i].type = type}

\* C1: the users of every ONLINE_USERS frame sent by the handler that ran
\* last are exactly the principal ids registered now: no stale id, none
\* missing.
C1_OnlineSetIsRegistry ==
  \A c \in Conns : \A i \in FramesOfType(sent[c], "ONLINE_USERS") :
    sent[c][i].users = RegisteredIds

\* A close was processed while another principal stayed registered: the
\* survivor is told the set without the id that left.
C1_Witness ==
  /\ last.op = "close"
  /\ \E c \in Conns :
       /\ sent[c] # <<>>
       /\ sent[c][1].users = RegisteredIds
       /\ userId[last.conn] \notin sent[c][1].users

\* C2 as claimed: every register and every deregister runs one broadcast
\* pass, and the pass sends ONLINE_USERS to every connection registered at
\* that moment.
C2_BroadcastToEveryRegistered ==
  [][changes' # changes =>
       /\ passes' = passes + 1
       /\ \A c \in MapValues(clients') :
            Cardinality(FramesOfType(sent'[c], "ONLINE_USERS")) = 1]_vars

\* C2, amended: every register and every deregister runs exactly one
\* broadcast pass; the pass sends one ONLINE_USERS frame to every connection
\* that is registered and open at that moment, the one that just registered
\* included, and nothing to any other connection.
C2_BroadcastToEveryOpenRegistered ==
  [][/\ (changes' # changes) <=> (nextConn' # nextConn \/ last'.op = "close")
     /\ changes' # changes =>
          /\ changes' = changes + 1
          /\ passes' = passes + 1
          /\ \A c \in Conns :
               IF c \in MapValues(clients') /\ readyState'[c] = "OPEN"
                 THEN sent'[c] = <<[type |-> "ONLINE_USERS",
                                    users |-> RegisteredIds']>>
                 ELSE sent'[c] = <<>>
          /\ nextConn' # nextConn =>
               FramesOfType(sent'[nextConn'], "ONLINE_USERS") = {1}
     /\ changes' = changes => passes' = passes]_vars

\* A connection registered while another one was registered and open: both
\* got the frame of that pass.
C2_Witness ==
  /\ last.op = "upgrade"
  /\ last.status = 101
  /\ \E c \in Conns :
       /\ c # last.conn
       /\ sent[c] # <<>>
       /\ sent[last.conn] = sent[c]

\* the connection accepted last for principal u
Newest(u) ==
  IF \E c \in 1..nextConn : userId[c] = u
    THEN CHOOSE c \in 1..nextConn :
           /\ userId[c] = u
           /\ \A d \in 1..nextConn : userId[d] = u => d <= c
    ELSE Null

\* C3: the registry never holds two entries for one principal id, and the
\* entry of an id, while there is one, is the connection that registered
\* last for that id, so that every lookup returns only the newest one.
C3_OneConnectionPerPrincipal ==
  \A u \in Users :
    /\ Cardinality({e \in clients : e[1] = u}) <= 1
    /\ MapGet(clients, u) # Null => MapGet(clients, u) = Newest(u)

\* A principal registered a second connection while its first was still
\* open: the lookup now returns the second.
C3_Witness ==
  \E u \in Users, c, d \in Conns :
    /\ c < d
    /\ userId[c] = u
    /\ userId[d] = u
    /\ readyState[c] = "OPEN"
    /\ MapGet(clients, u) = d

\* a CHAT_MESSAGE frame naming a direct recipient and no group
ValidDirect(fr) ==
  fr.type = "CHAT_MESSAGE" /\ fr.receiverId \in Users /\ fr.groupId = Null

\* a CHAT_MESSAGE frame naming a group and no direct recipient
ValidGroup(fr) ==
  fr.type = "CHAT_MESSAGE" /\ fr.receiverId = Null /\ fr.groupId \in Groups

\* This step persisted one message for the frame fr of connection c, pushed
\* exactly one NEW_MESSAGE carrying it, to connection rc, and exactly one
\* MESSAGE_SENT carrying it, to connection c.
RelayedOnce(c, fr, rc) ==
  /\ seq' = seq + 1
  /\ \E msg \in messages' \ messages :
       /\ msg.id = seq'
       /\ msg.sender_id = userId[c]
       /\ msg.receiver_id = fr.receiverId
       /\ \A d \in Conns :
            /\ \A i \in FramesOfType(sent'[d], "NEW_MESSAGE") :
                 sent'[d][i].message = msg
            /\ \A i \in FramesOfType(sent'[d], "MESSAGE_SENT") :
                 sent'[d][i].message = msg
            /\ Cardinality(FramesOfType(sent'[d], "NEW_MESSAGE")) =
                 (IF d = rc THEN 1 ELSE 0)
            /\ Cardinality(FramesOfType(sent'[d], "MESSAGE_SENT")) =
                 (IF d = c THEN 1 ELSE 0)

\* C4 as claimed: a valid send to a registered recipient gives the
\* recipient's connection exactly one NEW_MESSAGE and the sender's exactly
\* one MESSAGE_SENT, both with the persisted id.
C4_RelayToRegistered ==
  [][(/\ last'.op = "message"
      /\ ValidDirect(last'.frame)
      /\ MapGet(clients, last'.frame.receiverId) # Null)
     => RelayedOnce(last'.conn, last'.frame,
                    MapGet(clients, last'.frame.receiverId))]_vars

\* C4, amended: a valid send handled on an open connection, to a recipient
\* that is registered with an open connection, gives the recipient's
\* connection exactly one NEW_MESSAGE and the connection the frame came from
\* exactly one MESSAGE_SENT, both carrying the message that was persisted,
\* under its id.
C4_RelayToOpenRegistered ==
  [][(/\ last'.op = "message"
      /\ ValidDirect(last'.frame)
      /\ readyState[last'.conn] = "OPEN"
      /\ MapGet(clients, last'.frame.receiverId) # Null
      /\ readyState[MapGet(clients, last'.frame.receiverId)] = "OPEN")
     => RelayedOnce(last'.conn, last'.frame,
                    MapGet(clients, last'.frame.receiverId))]_vars

\* A message was relayed between two connections of different principals.
C4_Witness ==
  /\ last.op = "message"
  /\ \E d \in Conns :
       /\ d # last.conn
       /\ userId[d] # userId[last.conn]
       /\ FramesOfType(sent[d], "NEW_MESSAGE") = {1}
       /\ FramesOfType(sent[last.conn], "MESSAGE_SENT") = {1}
       /\ sent[d][1].message = sent[last.conn][1].message
       /\ sent[d][1].message \in messages

\* C5: a valid send to a recipient that is not registered raises no error
\* (the message is persisted under the next id), changes neither the
\* registry nor the state of any connection and sends nothing to any
\* connection but the sender's; the history fetch of either party returns
\* it, as does every authorized fetch for every stored message of its two
\* parties.
C5_UnregisteredRecipientStored ==
  [][/\ (/\ last'.op = "message"
         /\ ValidDirect(last'.frame)
         /\ MapGet(clients, last'.frame.receiverId) = Null)
        => /\ seq' = seq + 1
           /\ clients' = clients
           /\ readyState' = readyState
           /\ \E msg \in messages' \ messages :
                /\ msg.id = seq'
                /\ msg.sender_id = userId[last'.conn]
                /\ msg.receiver_id = last'.frame.receiverId
                /\ \A d \in Conns \ {last'.conn} : sent'[d] = <<>>
                /\ FramesOfType(sent'[last'.conn], "NEW_MESSAGE") = {}
                /\ msg \in History(messages', msg.sender_id,
                                   ParamStr(msg.receiver_id))
                /\ msg \in History(messages', msg.receiver_id,
                                   ParamStr(msg.sender_id))
     /\ (last'.op = "chat" /\ last'.token.kind = "valid")
        => /\ last'.status = 200
           /\ messages' = messages
           /\ \A r \in messages :
                (\/ r.sender_id = last'.token.id /\ r.receiver_id = last'.arg
                 \/ r.sender_id = last'.arg /\ r.receiver_id = last'.token.id)
                => r \in last'.rows]_vars

\* A history fetch returned a message whose recipient never had a
\* connection, and whose sender is another principal.
C5_Witness ==
  /\ last.op = "chat"
  /\ last.status = 200
  /\ \E r \in last.rows :
       /\ r.receiver_id = last.token.id
       /\ r.sender_id = last.arg
       /\ r.receiver_id # r.sender_id
       /\ \A c \in Conns : userId[c] # r.receiver_id

\* C6 as claimed: every valid send, to a direct recipient or to a group,
\* registered or not, is persisted and answered by one MESSAGE_SENT carrying
\* the persisted message on the connection the frame came from.
C6_AlwaysConfirmed ==
  [][(/\ last'.op = "message"
      /\ readyState[last'.conn] = "OPEN"
      /\ ValidDirect(last'.frame) \/ ValidGroup(last'.frame))
     => /\ seq' = seq + 1
        /\ \E msg \in messages' \ messages :
             /\ msg.id = seq'
             /\ FramesOfType(sent'[last'.conn], "MESSAGE_SENT") # {}
             /\ \A i \in FramesOfType(sent'[last'.conn], "MESSAGE_SENT") :
                  sent'[last'.conn][i].message = msg]_vars

\* the connection under which principal u is registered and open
OpenConnOf(u) ==
  IF MapGet(clients, u) # Null /\ readyState[MapGet(clients, u)] = "OPEN"
    THEN {MapGet(clients, u)}
    ELSE {}

\* C7 as claimed: a delete by the sender answers 200, removes the row, and
\* the open registered connection of the sender and that of the recipient
\* each get exactly one MESSAGE_DELETED spelling the id, self-sent messages
\* included.
C7_DeleteNotifiesOnce ==
  [][(/\ last'.op = "delete"
      /\ last'.token.kind = "valid"
      /\ \E r \in messages : r.id = last'.arg /\ r.sender_id = last'.token.id)
     => /\ last'.status = 200
        /\ \A r \in messages' : r.id # last'.arg
        /\ \A r \in messages : r.id = last'.arg =>
             \A c \in OpenConnOf(r.sender_id) \cup OpenConnOf(r.receiver_id) :
               /\ Cardinality(FramesOfType(sent'[c], "MESSAGE_DELETED")) = 1
               /\ \A i \in FramesOfType(sent'[c], "MESSAGE_DELETED") :
                    sent'[c][i].messageId.v = last'.arg]_vars

\* C8: a delete of an existing message by an authenticated principal that is
\* not its sender answers 403, leaves the messages table as it was and sends
\* no frame to any connection.
C8_DeleteByNonSenderForbidden ==
  [][(/\ last'.op = "delete"
      /\ last'.token.kind = "valid"
      /\ \E r \in messages : r.id = last'.arg /\ r.sender_id # last'.token.id)
     => /\ last'.status = 403
        /\ messages' = messages
        /\ sent' = NoneSent]_vars

\* The recipient of a stored message, connected, was refused its deletion.
C8_Witness ==
  /\ last.op = "delete"
  /\ last.status = 403
  /\ last.error = "Not authorized to delete this message"
  /\ \E r \in messages :
       /\ r.id = last.arg
       /\ r.receiver_id # r.sender_id
       /\ OpenConnOf(r.receiver_id) # {}
       /\ OpenConnOf(r.sender_id) # {}

\* C9: a delete of an id that is not in the messages table (never assigned,
\* or deleted before) by an authenticated principal answers 404, leaves the
\* table as it was and sends no frame to any connection.
C9_DeleteMissingNotFound ==
  [][(/\ last'.op = "delete"
      /\ last'.token.kind = "valid"
      /\ \A r \in messages : r.id # last'.arg)
     => /\ last'.status = 404
        /\ messages' = messages
        /\ sent' = NoneSent]_vars

\* A delete of an id that had been assigned and deleted before was answered
\* 404 while the sender's connection was open.
C9_Witness ==
  /\ last.op = "delete"
  /\ last.token.kind = "valid"
  /\ last.status = 404
  /\ last.arg <= seq
  /\ OpenConnOf(last.token.id) # {}

\* C10: an upgrade request whose token is missing or does not verify is
\* answered 401 or 403 and destroyed: no connection is created for it, the
\* registry and the stores are as before, no broadcast pass runs and no
\* frame is sent; every connection there is belongs to a verified principal.
C10_RejectedUpgradeChangesNothing ==
  [][/\ (last'.op = "upgrade" /\ last'.token.kind # "valid")
        => /\ last'.status = (IF last'.token.kind = "missing" THEN 401 ELSE 403)
           /\ last'.conn = Null
           /\ UNCHANGED <<clients, readyState, userId, nextConn, messages,
                          seq, passes, changes>>
           /\ RegisteredIds' = RegisteredIds
           /\ sent' = NoneSent
     /\ \A c \in Conns : readyState'[c] # "NONE" => userId'[c] \in Users
     /\ \A e \in clients' : e[1] \in Users /\ readyState'[e[2]] # "NONE"]_vars

\* An upgrade with a token that does not verify was refused while a
\* principal was registered.
C10_Witness ==
  /\ last.op = "upgrade"
  /\ last.token.kind = "expired"
  /\ last.status = 403
  /\ clients # {}
  /\ nextConn < MaxConns

\* a CHAT_MESSAGE frame naming neither a recipient nor a group, or both
NeitherOrBoth(fr) ==
  /\ fr.type = "CHAT_MESSAGE"
  /\ (fr.receiverId = Null) <=> (fr.groupId = Null)

\* C11 as claimed: a CHAT_MESSAGE frame naming neither a recipient nor a
\* group, or naming both, is rejected: nothing is persisted and no frame is
\* sent for it, and the connection stays as open and as registered as it was.
C11_NeitherOrBothRejected ==
  [][(last'.op = "message" /\ NeitherOrBoth(last'.frame))
     => /\ messages' = messages
        /\ seq' = seq
        /\ sent' = NoneSent
        /\ readyState' = readyState
        /\ clients' = clients]_vars

\* every principal belongs to the one group
GroupMembers(g) == Users

\* C12 as claimed: a send to a group, handled on an open connection, is
\* persisted and one NEW_MESSAGE carrying the persisted message is pushed to
\* the open registered connection of every member of the group.
C12_GroupSendPersistedAndPushed ==
  [][(/\ last'.op = "message"
      /\ readyState[last'.conn] = "OPEN"
      /\ ValidGroup(last'.frame))
     => /\ seq' = seq + 1
        /\ \E msg \in messages' \ messages :
             /\ msg.id = seq'
             /\ msg.sender_id = userId[last'.conn]
             /\ \A u \in GroupMembers(last'.frame.groupId) :
                  \A c \in OpenConnOf(u) :
                    \E i \in FramesOfType(sent'[c], "NEW_MESSAGE") :
                      sent'[c][i].message = msg]_vars

\* the error texts authenticateToken answers with
AuthErrors == {"Unauthorized", "Forbidden"}

\* C13: the REST middleware and the upgrade handshake decide alike on every
\* token: a request is let through to its route exactly when the token
\* verifies, an upgrade is accepted exactly when the token verifies, both
\* refuse a missing token with 401 and any other token that does not verify
\* with 403, and both act for the principal id the token was signed for.
C13_SameVerification ==
  [][/\ last'.op \in {"upgrade", "chat", "delete"} =>
          ((AuthStatus(last'.token) = 0)
             <=> (UpgradeStatus(last'.token) = 101))
     /\ last'.op = "upgrade" =>
          /\ (last'.status = 101) <=> (last'.token.kind = "valid")
          /\ last'.status = 101 => userId'[last'.conn] = last'.token.id
          /\ last'.status # 101 =>
               last'.status =
                 (IF last'.token.kind = "missing" THEN 401 ELSE 403)
     /\ last'.op \in {"chat", "delete"} =>
          /\ (last'.error \notin AuthErrors) <=> (last'.token.kind = "valid")
          /\ last'.error \in AuthErrors =>
               last'.status =
                 (IF last'.token.kind = "missing" THEN 401 ELSE 403)
     /\ (last'.op = "chat" /\ last'.error \notin AuthErrors) =>
          last'.rows =
            {r \in messages :
               \/ r.sender_id = last'.token.id /\ r.receiver_id = last'.arg
               \/ r.sender_id = last'.arg /\ r.receiver_id = last'.token.id}
     /\ (last'.op = "delete" /\ last'.status = 200) =>
          \E r \in messages :
            r.id = last'.arg /\ r.sender_id = last'.token.id]_vars

\* A history fetch was authorized for a principal that also holds an open
\* connection, and returned a message that principal had sent.
C13_Witness ==
  /\ last.op = "chat"
  /\ last.status = 200
  /\ OpenConnOf(last.token.id) # {}
  /\ \E r \in last.rows : r.sender_id = last.token.id

\* C14: a stored message never changes: a row that is in the table after a
\* step and whose id was there before is the row that was there before; a
\* new row is created only by the relay, under the next id; and a row leaves
\* the table only in a delete request of its sender for its id.
C14_MessagesImmutable ==
  [][/\ \A r \in messages, q \in messages' : r.id = q.id => r = q
     /\ \A q \in messages' \ messages :
          /\ last'.op = "message"
          /\ q.id = seq + 1
          /\ seq' = seq + 1
          /\ \A r \in messages : r.id < q.id
     /\ \A r \in messages \ messages' :
          /\ last'.op = "delete"
          /\ last'.token.kind = "valid"
          /\ last'.token.id = r.sender_id
          /\ last'.arg = r.id
     /\ messages' = messages => seq' = seq]_vars

\* The one message stored so far was deleted by its sender while another
\* principal held a connection.
C14_Witness ==
  /\ last.op = "delete"
  /\ last.status = 200
  /\ seq = 1
  /\ messages = {}
  /\ \E c \in Conns : userId[c] # Null /\ userId[c] # last.token.id

\* C19: a broadcast pass that meets a registered connection that is not open
\* (its close has not been processed yet) runs to its end: every registered
\* open connection gets the ONLINE_USERS frame of the pass.
C19_ClosingDoesNotBlockBroadcast ==
  [][(/\ passes' # passes
      /\ \E c \in MapValues(clients') : readyState'[c] # "OPEN")
     => \A d \in MapValues(clients') :
          readyState'[d] = "OPEN" =>
            /\ FramesOfType(sent'[d], "ONLINE_USERS") = {1}
            /\ sent'[d][1].users = MapKeys(clients')]_vars

\* A pass ran while one registered connection was closing and another was
\* open: the open one got the frame, naming both principals.
C19_Witness ==
  /\ last.op = "upgrade"
  /\ last.status = 101
  /\ \E c \in MapValues(clients) : readyState[c] = "CLOSING"
  /\ sent[last.conn] # <<>>
  /\ Cardinality(sent[last.conn][1].users) = 2

\* the ordinal, on connection c, of the frame the row id was inserted for
OrdOf(c, id) ==
  IF \E r \in rowOrd : r.id = id /\ r.conn = c
    THEN (CHOOSE r \in rowOrd : r.id = id /\ r.conn = c).ord
    ELSE Null

\* C20: the frames of one connection are handled in the order they were
\* written: of two frames of a connection that were stored, the one written
\* first has the smaller id; the MESSAGE_SENT frames sent on a connection
\* answer frames of that connection and follow one another in the order
\* these were written; and a frame stored while its connection was open has
\* its MESSAGE_SENT. Frames of other connections may be handled in between.
C20_ReceiptOrder ==
  /\ \A a, b \in rowOrd : (a.conn = b.conn /\ a.ord < b.ord) => a.id < b.id
  /\ \A c \in Conns :
       /\ \A p \in 1..Len(acks[c]) : OrdOf(c, acks[c][p]) # Null
       /\ \A p, q \in 1..Len(acks[c]) :
            p < q => OrdOf(c, acks[c][p]) < OrdOf(c, acks[c][q])
       /\ \A p \in 1..Len(inflight[c]) : \A r \in rowOrd :
            r.conn = c => r.ord < inflight[c][p].ord
  /\ \A r \in rowOrd :
       r.open => \E p \in 1..Len(acks[r.conn]) : acks[r.conn][p] = r.id

\* A connection had two frames stored and confirmed, and a frame of another
\* connection was stored between the two.
C20_Witness ==
  \E c \in Conns :
    /\ Len(acks[c]) = 2
    /\ \E r \in rowOrd :
         r.conn # c /\ acks[c][1] < r.id /\ r.id < acks[c][2]

\* msg is a message of the chat sc of user uid: a direct message between uid
\* and the peer sc, or a message of the group sc
BelongsToChat(msg, sc, uid) ==
  IF sc = NoChat THEN FALSE
  ELSE IF sc.isGroup THEN GroupIdOf(msg) = sc.id
  ELSE /\ GroupIdOf(msg) = Null
       /\ \/ msg.sender_id = uid /\ msg.receiver_id = sc.id
          \/ msg.sender_id = sc.id /\ msg.receiver_id = uid

EntriesOfSend(n) ==
  {i \in 1..Len(chatMessages) :
     \/ chatMessages[i].id = TempId(n)
     \/ \E r \in rowOrd :
          r.conn = socket /\ r.ord = n /\ r.id = chatMessages[i].id}

\* C16: the displayed list never holds two entries for one send of the view,
\* whatever the order in which its optimistic entry, the MESSAGE_SENT for
\* it, NEW_MESSAGE frames and history responses are handled.
C16_NoDuplicateOfSend ==
  \A n \in 1..MaxOrdered : Cardinality(EntriesOfSend(n)) <= 1

\* The view sent a message, the server stored it and confirmed it, the view
\* has handled the confirmation, and the list shows the optimistic entry.
C16_Witness ==
  /\ socket # Null
  /\ acks[socket] # <<>>
  /\ toView = <<>>
  /\ \E i \in 1..Len(chatMessages) : chatMessages[i].id = TempId(1)

\* C18: selecting another chat leaves the connection of the view as it is
\* (the same socket, no WebSocket created, no connection opened, closed or
\* registered, no frame written) and issues one history fetch, for the chat
\* selected; from its mount on the view has created exactly one WebSocket,
\* for its user.
C18_SelectionLeavesConnection ==
  [][/\ selectedChat' # selectedChat =>
          /\ socket' = socket
          /\ opened' = opened
          /\ UNCHANGED <<clients, readyState, userId, nextConn, inflight,
                         written, toView>>
          /\ fetches' = fetches + 1
          /\ \E f \in pending' \ pending :
               /\ pending' = pending \cup {f}
               /\ f.chat = selectedChat'
               /\ ~f.served
     /\ selectedChat' = selectedChat => fetches' = fetches
     /\ me' # Null =>
          /\ opened' = 1
          /\ socket' \in Conns
          /\ userId'[socket'] = me']_vars

\* The view selected a peer and then a group while its one connection was
\* open.
C18_Witness ==
  /\ fetches = 2
  /\ selectedChat.isGroup
  /\ opened = 1
  /\ socket # Null
  /\ readyState[socket] = "OPEN"

\* C17: a call of fetchWithAuth in a tab that recorded a session tag at its
\* previous request, made while localStorage holds another tag, clears
\* localStorage, sends the tab to the login page and rejects with 'Session
\* invalidated'; no request is handed to fetch.
C17_SupersededSessionInvalidated ==
  [][(/\ lastCall'.n # lastCall.n
      /\ localStorage.sessionId # ""
      /\ currentSessionId[lastCall'.tab] # ""
      /\ localStorage.sessionId # currentSessionId[lastCall'.tab])
     => /\ localStorage' = NoItems
        /\ location'[lastCall'.tab] = "login"
        /\ lastCall'.error = "Session invalidated"
        /\ ~lastCall'.sent
        /\ requests' = requests
        /\ awaiting' = awaiting]_vars

\* A tab that had issued a request under its own login made a call after
\* another tab had logged in, and was invalidated.
C17_Witness ==
  /\ lastCall.error = "Session invalidated"
  /\ requests >= 1
  /\ \E t \in Tabs :
       /\ t # lastCall.tab
       /\ sessionId[t] # currentSessionId[lastCall.tab]
       /\ location[t] = "app"

\* the ids of a set of rows
IdsOf(rows) == {r.id : r \in rows}

\* C21: every row inserted gets an id larger than every id assigned before,
\* whether that row is still stored or was deleted; no two stored rows share
\* an id; and a MESSAGE_DELETED frame names the id of the row deleted in
\* that step, an id that was assigned once only.
C21_IdsNeverReused ==
  [][/\ \A q \in messages' \ messages :
          /\ \A r \in rowOrd : r.id < q.id
          /\ \A r \in messages : r.id < q.id
     /\ Cardinality(messages' \ messages) <= 1
     /\ Cardinality(IdsOf(messages')) = Cardinality(messages')
     /\ (messages \ messages' # {}) =>
          \A c \in Conns :
            \A i \in FramesOfType(sent'[c], "MESSAGE_DELETED") :
              \E r \in messages \ messages' :
                /\ sent'[c][i].messageId = ParamStr(r.id)
                /\ r.id \notin IdsOf(messages')
                /\ Cardinality({x \in rowOrd' : x.id = r.id}) = 1]_vars

\* A row was inserted after the row with the largest id had been deleted:
\* the id of the deleted row is smaller than that of the row stored now.
C21_Witness ==
  /\ messages # {}
  /\ \E x \in rowOrd :
       /\ x.id \notin IdsOf(messages)
       /\ \A r \in messages : x.id < r.id
       /\ \A y \in rowOrd : y.id # x.id => y.id \in IdsOf(messages)

\* C22 as claimed: when a connection closes whose principal has registered
\* a newer connection that is still open, the registry entry of the newer
\* connection stays and the principal stays in the online-id set.
C22_SupersededCloseKeepsNewer ==
  [][\A c, d \in Conns :
       (/\ last'.op = "close"
        /\ last'.conn = c
        /\ readyState[c] # "CLOSED"
        /\ readyState'[c] = "CLOSED"
        /\ c < d
        /\ userId[d] = userId[c]
        /\ <<userId[d], d>> \in clients
        /\ readyState[d] = "OPEN")
       => /\ <<userId[d], d>> \in clients'
          /\ userId[d] \in OnlineUserIds(clients')]_vars

\* C23: the principal of a connection is the id of the token verified at its
\* upgrade and never changes afterwards; every row inserted while a frame of
\* a connection is handled has that principal as its sender, and so has the
\* message of every NEW_MESSAGE and MESSAGE_SENT frame sent for it, whatever
\* sender the frame names.
C23_SenderIsVerifiedPrincipal ==
  [][/\ (nextConn' # nextConn) =>
          /\ last'.op = "upgrade"
          /\ last'.token.kind = "valid"
          /\ userId'[nextConn'] = last'.token.id
     /\ \A c \in Conns : userId[c] # Null => userId'[c] = userId[c]
     /\ \A q \in messages' \ messages :
          /\ last'.op = "message"
          /\ userId[last'.conn] # Null
          /\ q.sender_id = userId[last'.conn]
          /\ \A d \in Conns : \A i \in 1..Len(sent'[d]) :
               /\ sent'[d][i].type \in {"NEW_MESSAGE", "MESSAGE_SENT"}
               /\ sent'[d][i].message = q]_vars

\* A frame that names another principal as its sender was handled: the row
\* stored for it, and the message pushed to the recipient, carry the
\* principal of the connection.
C23_Witness ==
  /\ last.op = "message"
  /\ "sender_id" \in DOMAIN last.frame
  /\ last.frame.sender_id # userId[last.conn]
  /\ \E q \in messages :
       /\ q.id = seq
       /\ q.sender_id = userId[last.conn]
       /\ \E d \in Conns \ {last.conn} :
            /\ sent[d] # <<>>
            /\ sent[d][1].type = "NEW_MESSAGE"
            /\ sent[d][1].message = q

\* C24: an authorized history fetch answers exactly the stored rows whose
\* sender and recipient are the requester and the named peer, in either
\* direction; a deleted row is not among them, and neither is a row the
\* requester is no party of.
C24_HistoryExactlyThePair ==
  (last.op = "chat" /\ last.status = 200) =>
    /\ last.rows =
         {r \in messages :
            {r.sender_id, r.receiver_id} = {last.token.id, last.arg}}
    /\ \A r \in last.rows : last.token.id \in {r.sender_id, r.receiver_id}
    /\ \A x \in rowOrd :
         x.id \notin IdsOf(messages) => x.id \notin IdsOf(last.rows)

\* A fetch answered a row of the requester and its peer while the table held
\* a row of the same peer the requester is no party of.
C24_Witness ==
  /\ last.op = "chat"
  /\ last.status = 200
  /\ last.rows # {}
  /\ \E r \in messages :
       /\ last.token.id \notin {r.sender_id, r.receiver_id}
       /\ last.arg \in {r.sender_id, r.receiver_id}
       /\ r \notin last.rows


\* C27 as claimed: when fetchWithAuth finds the session tag of a later
\* login in local storage and invalidates the calling tab, the token and the
\* session tag stored by that later login are still in local storage
\* afterwards.
C27_GuardSparesNewerLogin ==
  [][(/\ lastCall'.n = lastCall.n + 1
      /\ lastCall'.error = "Session invalidated")
     => /\ localStorage'.token = localStorage.token
        /\ localStorage'.sessionId = localStorage.sessionId]_vars


C26_AppendedMessageStays ==
  [][\A f \in pending \ pending' :
       (f.served /\ f.chat = selectedChat) =>
         \A i \in 1..Len(chatMessages) :
           chatMessages[i].id \in IdsOf(messages) =>
             \E j \in 1..Len(chatMessages') :
               chatMessages'[j] = chatMessages[i]]_vars

RECURSIVE AskedUpTo(_, _, _)
AskedUpTo(items, p, n) ==
  IF n = 0 THEN 0
  ELSE AskedUpTo(items, p, n - 1)
         + (IF items[n].id = p THEN items[n].quantity ELSE 0)

\* some item of the request names no product, or asks for more than the
\* earlier items of the request leave of the stock prods
SaleMustFail(items, prods) ==
  \E k \in 1..Len(items) :
    \/ items[k].id \notin 1..Len(prods)
    \/ items[k].quantity >
         prods[items[k].id].quantity - AskedUpTo(items, items[k].id, k - 1)

\* C29: a sale request with an item of an unknown product, or of more than
\* the stock left by the earlier items of the request, is answered 400 and
\* leaves products, sales and sale_items as they were; any other is answered
\* 201, adds one sale row and one sale item per item of the request and
\* lowers the stock of every product by exactly the quantities asked of it;
\* no stock is negative afterwards.
C29_SaleAtomic ==
  [][(last'.op = "sale" /\ last'.status \in {201, 400}) =>
       LET items == last'.arg
       IN /\ SaleMustFail(items, products) =>
               /\ last'.status = 400
               /\ products' = products
               /\ sales' = sales
               /\ sale_items' = sale_items
          /\ ~SaleMustFail(items, products) =>
               /\ last'.status = 201
               /\ Len(products') = Len(products)
               /\ \A p \in 1..Len(products) :
                    products'[p].quantity =
                      products[p].quantity - AskedUpTo(items, p, Len(items))
               /\ Len(sales') = Len(sales) + 1
               /\ SubSeq(sales', 1, Len(sales)) = sales
               /\ Len(sale_items') = Len(sale_items) + Len(items)
               /\ SubSeq(sale_items', 1, Len(sale_items)) = sale_items
               /\ \A i \in 1..Len(items) :
                    LET row == sale_items'[Len(sale_items) + i]
                    IN /\ row.sale_id = Len(sales')
                       /\ row.product_id = items[i].id
                       /\ row.quantity = items[i].quantity
          /\ \A p \in 1..Len(products') : products'[p].quantity >= 0]_vars

\* A request failed at its second item, which asked of the product of the
\* first more than the first had left, after an earlier sale had succeeded:
\* the stock is what that earlier sale left, and there is no row of the
\* failed request.
C29_Witness ==
  /\ last.op = "sale"
  /\ last.status = 400
  /\ Len(last.arg) = 2
  /\ last.arg[1].id = last.arg[2].id
  /\ last.arg[1].id \in 1..Len(products)
  /\ last.arg[1].quantity <= products[last.arg[1].id].quantity
  /\ last.arg[1].quantity + last.arg[2].quantity >
       products[last.arg[1].id].quantity
  /\ Len(sales) = 1
  /\ sale_items # <<>>
  /\ \A i \in 1..Len(sale_items) : sale_items[i].sale_id = 1


\* the sum of the amounts of the first n ledger rows of customer c that
\* have the given type
RECURSIVE LedgerSum(_, _, _, _)
LedgerSum(rows, c, type, n) ==
  IF n = 0 THEN 0
  ELSE LedgerSum(rows, c, type, n - 1)
         + (IF rows[n].customer_id = c /\ rows[n].type = type
              THEN rows[n].amount ELSE 0)

\* C30 as claimed: after every request the balance of each customer is the
\* sum of the amounts of its DEBT rows minus the sum of the amounts of its
\* PAYMENT rows, and a request that records no ledger row leaves every
\* balance as it was.
C30_BalanceIsLedgerSum ==
  [][/\ \A c \in 1..Len(customers') :
          customers'[c].balance =
            LedgerSum(debts', c, "DEBT", Len(debts'))
              - LedgerSum(debts', c, "PAYMENT", Len(debts'))
     /\ debts' = debts =>
          \A c \in 1..Len(customers) :
            customers'[c].balance = customers[c].balance]_vars

====
